---------------------------- MODULE Spec2Model ----------------------------
(***************************************************************************)
(* Model of packages/proxy/src/proxy.ts: the usage-worker singleton        *)
(* (getUsageWorker, terminateUsageWorker and the callbacks they install)   *)
(* and the request handler handleProxy.                                    *)
(***************************************************************************)
EXTENDS Integers, Sequences, FiniteSets, TLC

(* ------------------------------ bounds --------------------------------- *)

\* Worker instances the model lets `new Worker` create.
MaxWorkers == 3

\* Forced-termination timers the model lets setTimeout create.
MaxTimers == 2

\* Candidates the model lets selectAccountsForRequest return.
MaxAccounts == 3

\* Characters of an account name in the shell-quoting check.
MaxNameLen == 3

\* Messages the model lets the worker instances send to the main thread.
MaxMessages == 2

VARIABLES
    \* ---- the usage worker (module-level state of proxy.ts) ----
    usageWorkerInstance,  \* the singleton: 0 is null, else a worker id
    shutdownTimerId,      \* 0 is null, else the id setTimeout returned
    workers,              \* worker id -> "none" | "running" | "exited" | "terminated"
    timers,               \* ids of the timers that are scheduled and neither fired nor cleared
    timersCreated,        \* number of setTimeout calls so far
    posted,               \* worker ids that were sent the shutdown message
    stops,                \* worker id -> number of terminate() calls made on it
    faulted,              \* worker ids that have reported an error
    last,                 \* the last operation: what it was, on whom, what it returned
    received,             \* the data of the messages onmessage was called with, in order
    events,               \* what requestEvents.emit("event", ...) was called with, in order
    \* ---- one handleProxy call ----
    pc,                   \* where the call stands
    provider,             \* ctx.provider.name
    requestBodyBuffer,    \* prepareRequestBody's buffer
    modifiedBody,         \* interceptAndModifyRequest's modifiedBody
    agentUsed,            \* interceptAndModifyRequest's agentUsed
    finalBodyBuffer,      \* line 189
    requestMeta,          \* line 202-203
    accounts,             \* line 206
    i,                    \* the loop variable of line 233
    streams,              \* every stream the factory of line 190 has made, with its read position
    calls,                \* the collaborator calls made so far, in order
    outcome,              \* what handleProxy returned or threw
    \* ---- the remediation command of one account, given to a shell ----
    shPc, shName, shCommand, shWords

wvars == <<usageWorkerInstance, shutdownTimerId, workers, timers, timersCreated,
           posted, stops, faulted, last>>

pvars == <<pc, provider, requestBodyBuffer, modifiedBody, agentUsed, finalBodyBuffer,
           requestMeta, accounts, i, streams, calls, outcome>>

svars == <<shPc, shName, shCommand, shWords>>

mvars == <<received, events>>

vars == <<wvars, mvars, pvars, svars>>

WorkerIds == 1..MaxWorkers

\* A record of one operation: its name, the instance it acted on, what it
\* returned, whether it raised to its caller, and the operation before it.
Call(op, w, ret, raised) ==
    [op |-> op, w |-> w, ret |-> ret, raised |-> raised,
     prev |-> IF last.raised THEN "get-raised" ELSE last.op]

WInit ==
    /\ usageWorkerInstance = 0
    /\ shutdownTimerId = 0
    /\ workers = [w \in WorkerIds |-> "none"]
    /\ timers = {}
    /\ timersCreated = 0
    /\ posted = {}
    /\ stops = [w \in WorkerIds |-> 0]
    /\ faulted = {}
    /\ last = [op |-> "init", w |-> 0, ret |-> 0, raised |-> FALSE, prev |-> "init"]
    /\ received = <<>>
    /\ events = <<>>

\* The instances that were created and have neither exited nor been stopped.
Live == {w \in WorkerIds : workers[w] = "running"}

Created == {w \in WorkerIds : workers[w] # "none"}

(* --------------------------- getUsageWorker ---------------------------- *)

\* if (!usageWorkerInstance): does the call have to create a worker?
NeedsCreation_always(inst) == TRUE

NeedsCreation(inst) == inst = 0

\* getUsageWorker() when `new Worker` succeeds (or no creation is needed).
GetUsageWorker ==
    /\ UNCHANGED <<pvars, svars, mvars>>
    /\ IF NeedsCreation(usageWorkerInstance)
       THEN /\ Cardinality(Created) < MaxWorkers
            /\ LET w == Cardinality(Created) + 1 IN
               /\ workers' = [workers EXCEPT ![w] = "running"]
               /\ usageWorkerInstance' = w
               /\ last' = Call("get", w, w, FALSE)
       ELSE /\ UNCHANGED <<workers, usageWorkerInstance>>
            /\ last' = Call("get", usageWorkerInstance, usageWorkerInstance, FALSE)
    /\ UNCHANGED <<shutdownTimerId, timers, timersCreated, posted, stops, faulted>>

InstanceAfterFailedCreation_assigned(inst, fresh) ==
    IF fresh \in WorkerIds THEN fresh ELSE inst

\* The singleton after `new Worker` threw: the assignment of line 50 or 59
\* never happened, so what it held before (null).
InstanceAfterFailedCreation(inst, fresh) == inst

\* getUsageWorker() when `new Worker` throws: the catch logs and rethrows,
\* before anything was assigned to the singleton.
GetUsageWorkerFails ==
    /\ UNCHANGED <<pvars, svars, mvars>>
    /\ NeedsCreation(usageWorkerInstance)
    /\ usageWorkerInstance' =
         InstanceAfterFailedCreation(usageWorkerInstance, Cardinality(Created) + 1)
    /\ last' = Call("get", 0, 0, TRUE)
    /\ UNCHANGED <<shutdownTimerId, workers, timers,
                   timersCreated, posted, stops, faulted>>

(* ------------------------- worker.onerror ------------------------------ *)

OnErrorInstance_keep(inst) == inst

\* What the onerror callback assigns to the singleton.
OnErrorInstance(inst) == 0

\* A running instance reports an error.  The callback is installed on every
\* instance and stays installed after the singleton moved on.  Whether the
\* instance keeps running after the error is the runtime's choice.
WorkerError(w) ==
    /\ UNCHANGED <<pvars, svars, mvars>>
    /\ workers[w] = "running"
    /\ usageWorkerInstance' = OnErrorInstance(usageWorkerInstance)
    /\ faulted' = faulted \cup {w}
    /\ \E exits \in BOOLEAN :
         workers' = IF exits THEN [workers EXCEPT ![w] = "exited"] ELSE workers
    /\ last' = Call("error", w, usageWorkerInstance, FALSE)
    /\ UNCHANGED <<shutdownTimerId, timers, timersCreated, posted, stops>>

\* A running instance ends by itself (for instance after it has handled the
\* shutdown message); the parent is not told.
WorkerExit(w) ==
    /\ UNCHANGED <<pvars, svars, mvars>>
    /\ workers[w] = "running"
    /\ workers' = [workers EXCEPT ![w] = "exited"]
    /\ last' = Call("exit", w, 0, FALSE)
    /\ UNCHANGED <<usageWorkerInstance, shutdownTimerId, timers, timersCreated,
                   posted, stops, faulted>>

(* ----------------------------- onmessage ------------------------------- *)

\* A field a message does not carry.
Undefined == "<undefined>"

\* event.data: the type tag and the two fields the handler reads.
Data(type, summary, payload) == [type |-> type, summary |-> summary, payload |-> payload]

\* What the instances send: the two known types, one of them with a field of
\* the other type beside its own, and a type the handler does not know.
Messages ==
    { Data("summary", "s1", Undefined),
      Data("payload", "s1", "p2"),
      Data("ping", "s1", "p1") }

Event(type, payload) == [type |-> type, payload |-> payload]

EventsFor_swapped(data) ==
    IF data.type = "summary" THEN <<Event("summary", data.payload)>>
    ELSE IF data.type = "payload" THEN <<Event("payload", data.summary)>>
    ELSE <<>>

\* Lines 74-84: the requestEvents.emit calls one message leads to.
EventsFor(data) ==
    IF data.type = "summary" THEN <<Event("summary", data.summary)>>
    ELSE IF data.type = "payload" THEN <<Event("payload", data.payload)>>
    ELSE <<>>

\* The onmessage handler of instance w, called with a message of that instance.
\* The handler was put on w when w was created and is never taken off.
WorkerMessage(w, data) ==
    /\ UNCHANGED <<pvars, svars>>
    /\ workers[w] = "running"
    /\ Len(received) < MaxMessages
    /\ received' = Append(received, data)
    /\ events' = events \o EventsFor(data)
    /\ last' = Call("message", w, 0, FALSE)
    /\ UNCHANGED <<usageWorkerInstance, shutdownTimerId, workers, timers,
                   timersCreated, posted, stops, faulted>>

(* ------------------------ terminateUsageWorker ------------------------- *)

\* postMessage on an instance that is gone throws (the catch's case).
PostMessageThrows(w) == workers[w] # "running"

TimersAfterClear_keep(ts, id) == ts

\* The timers left pending once the call has passed lines 119-122.
TimersAfterClear(ts, id) == IF id # 0 THEN ts \ {id} ELSE ts

PostFailedInstance_keep(inst) == inst

\* Line 130: what the catch of a failed postMessage assigns to the singleton.
PostFailedInstance(inst) == 0

\* terminateUsageWorker() with lines 119-122 placed before the test of line 117.
TerminateUsageWorker_clearsFirst ==
    /\ UNCHANGED <<pvars, svars, mvars>>
    /\ IF usageWorkerInstance = 0
       THEN /\ timers' = TimersAfterClear(timers, shutdownTimerId)
            /\ shutdownTimerId' = 0
            /\ UNCHANGED <<usageWorkerInstance, timersCreated, posted>>
       ELSE IF PostMessageThrows(usageWorkerInstance)
       THEN /\ timers' = TimersAfterClear(timers, shutdownTimerId)
            /\ shutdownTimerId' = 0
            /\ usageWorkerInstance' = PostFailedInstance(usageWorkerInstance)
            /\ UNCHANGED <<timersCreated, posted>>
       ELSE /\ timersCreated < MaxTimers
            /\ LET t == timersCreated + 1 IN
               /\ timers' = TimersAfterClear(timers, shutdownTimerId) \cup {t}
               /\ shutdownTimerId' = t
               /\ timersCreated' = t
            /\ posted' = posted \cup {usageWorkerInstance}
            /\ UNCHANGED usageWorkerInstance
    /\ last' = Call("terminate", usageWorkerInstance, 0, FALSE)
    /\ UNCHANGED <<workers, stops, faulted>>

TerminateUsageWorker ==
    /\ UNCHANGED <<pvars, svars, mvars>>
    /\ IF usageWorkerInstance = 0
       THEN UNCHANGED <<usageWorkerInstance, shutdownTimerId, timers,
                        timersCreated, posted>>
       ELSE IF PostMessageThrows(usageWorkerInstance)
       THEN /\ timers' = TimersAfterClear(timers, shutdownTimerId)
            /\ shutdownTimerId' = 0
            /\ usageWorkerInstance' = PostFailedInstance(usageWorkerInstance)
            /\ UNCHANGED <<timersCreated, posted>>
       ELSE /\ timersCreated < MaxTimers
            /\ LET t == timersCreated + 1 IN
               /\ timers' = TimersAfterClear(timers, shutdownTimerId) \cup {t}
               /\ shutdownTimerId' = t
               /\ timersCreated' = t
            /\ posted' = posted \cup {usageWorkerInstance}
            /\ UNCHANGED usageWorkerInstance
    /\ last' = Call("terminate", usageWorkerInstance, 0, FALSE)
    /\ UNCHANGED <<workers, stops, faulted>>

TimerInstance_keep(inst) == inst

\* What the timer callback leaves in the singleton (line 142; null already
\* when the guard of line 136 fails).
TimerInstance(inst) == 0

TimerIdAfterFire_keep(id) == id

\* Line 144: what the timer callback assigns to shutdownTimerId.
TimerIdAfterFire(id) == 0

\* The setTimeout callback of timer t.  terminate() may throw; the error is
\* caught and the instance counts as stopped either way.
TimerFires(t) ==
    /\ UNCHANGED <<pvars, svars, mvars>>
    /\ t \in timers
    /\ timers' = timers \ {t}
    /\ IF usageWorkerInstance # 0
       THEN /\ stops' = [stops EXCEPT ![usageWorkerInstance] = @ + 1]
            /\ workers' = [workers EXCEPT ![usageWorkerInstance] = "terminated"]
       ELSE UNCHANGED <<stops, workers>>
    /\ usageWorkerInstance' = TimerInstance(usageWorkerInstance)
    /\ shutdownTimerId' = TimerIdAfterFire(shutdownTimerId)
    /\ last' = Call("timer", usageWorkerInstance, 0, FALSE)
    /\ UNCHANGED <<timersCreated, posted, faulted>>

(* ------------------------------ values --------------------------------- *)

\* A body buffer: null/undefined, or bytes.
NullBuf == [isNull |-> TRUE, bytes |-> <<>>]

Buf(b) == [isNull |-> FALSE, bytes |-> b]

\* refresh_token of an account that has none.
NoToken == "<null>"

\* agentUsed when interception detected no agent.
NoAgent == "<none>"

Account(name, token, expired) ==
    [name |-> name, refresh_token |-> token, expired |-> expired]

NoAccount == Account(<<>>, NoToken, FALSE)

\* The accounts selection draws from.  `expired` is what
\* isRefreshTokenLikelyExpired answers for the account.
AccountPool ==
    { Account(<<"k">>, NoToken, TRUE),
      Account(<<"o", "'", "b">>, "rt1", TRUE),
      Account(<<"c">>, "rt2", FALSE),
      Account(<<"d", " ", "e">>, "rt3", TRUE),
      Account(<<"f">>, "", TRUE) }

RECURSIVE SeqsUpTo(_, _)
SeqsUpTo(S, n) ==
    IF n = 0 THEN {<<>>}
    ELSE LET shorter == SeqsUpTo(S, n - 1) IN
         shorter \cup {Append(q, x) : q \in {r \in shorter : Len(r) = n - 1}, x \in S}

AccountLists == SeqsUpTo(AccountPool, MaxAccounts)

\* A value handleProxy returns or throws, or a collaborator hands it.
Value(type, from, n, message, prov) ==
    [type |-> type, from |-> from, n |-> n, message |-> message, provider |-> prov]

NoValue == Value("none", "", 0, <<>>, "")

\* The Response (resp. error) that call number n of collaborator `from` produced.
ResponseOf(from, n) == Value("Response", from, n, <<>>, "")

ErrorOf(from, n) == Value("Error", from, n, <<>>, "")

\* One collaborator call: who was called, with which account, attempt index,
\* body buffer and agent, what a fresh stream of the factory held when the
\* callee asked for it, and how the call ended.
CallRec(fn, account, index, body, delivered, agent, result, value) ==
    [fn |-> fn, account |-> account, index |-> index, body |-> body,
     delivered |-> delivered, agent |-> agent, result |-> result, value |-> value]

PlainCall(fn, result, value) ==
    CallRec(fn, NoAccount, -1, NullBuf, NullBuf, NoAgent, result, value)

(* ------------------------- handleProxy: helpers ------------------------ *)

BodyOr_original(modified, original) == original

\* modifiedBody || requestBodyBuffer (a buffer object is truthy, empty or not).
BodyOr(modified, original) == IF modified.isNull THEN original ELSE modified

finalCreateBodyStream_shared(ss, buf) ==
    IF buf.isNull THEN [streams |-> ss, id |-> 0]
    ELSE IF ss # <<>> THEN [streams |-> ss, id |-> 1]
    ELSE [streams |-> Append(ss, [data |-> buf.bytes, pos |-> 0]), id |-> Len(ss) + 1]

\* finalCreateBodyStream: undefined (id 0) without a body, else a new stream
\* over the buffer, positioned at its start.
finalCreateBodyStream(ss, buf) ==
    IF buf.isNull THEN [streams |-> ss, id |-> 0]
    ELSE [streams |-> Append(ss, [data |-> buf.bytes, pos |-> 0]), id |-> Len(ss) + 1]

\* What reading stream id to its end gives.
Remaining(ss, id) ==
    IF id = 0 THEN NullBuf
    ELSE Buf(SubSeq(ss[id].data, ss[id].pos + 1, Len(ss[id].data)))

\* The streams after n bytes were read from stream id.
Consume(ss, id, n) ==
    IF id = 0 THEN ss
    ELSE LET p == ss[id].pos + n
             q == IF p > Len(ss[id].data) THEN Len(ss[id].data) ELSE p
         IN [ss EXCEPT ![id].pos = q]

IsEmpty_never(accs) == FALSE

\* accounts.length === 0
IsEmpty(accs) == Len(accs) = 0

CandidateAt_reversed(accs, k) == accs[Len(accs) - k]

\* accounts[i], for the zero-based i of the loop.
CandidateAt(accs, k) == accs[k + 1]

\* acc.refresh_token as a condition: null and the empty string are falsy.
Truthy(token) == token # NoToken /\ token # ""

oauthAccounts(accs) == SelectSeq(accs, LAMBDA acc : Truthy(acc.refresh_token))

needsReauth_allOauth(accs) == oauthAccounts(accs)

needsReauth(accs) == SelectSeq(oauthAccounts(accs), LAMBDA acc : acc.expired)

RECURSIVE Flatten(_)
Flatten(ss) == IF ss = <<>> THEN <<>> ELSE Head(ss) \o Flatten(Tail(ss))

\* parts.join(sep), on texts that are sequences of characters and literals.
RECURSIVE Join(_, _)
Join(parts, sep) ==
    IF parts = <<>> THEN <<>>
    ELSE IF Len(parts) = 1 THEN parts[1]
    ELSE parts[1] \o sep \o Join(Tail(parts), sep)

EscapeChar_backslash(c) == IF c = "'" THEN <<"\\", "'">> ELSE <<c>>

\* What replace(/'/g, "'\\''") puts in the place of character c.
EscapeChar(c) == IF c = "'" THEN <<"'", "\\", "'", "'">> ELSE <<c>>

EscapeName(name) == Flatten([k \in 1..Len(name) |-> EscapeChar(name[k])])

\* bun run cli --reauthenticate '<escaped name>'
reauthCommand(acc) ==
    <<"bun", " ", "run", " ", "cli", " ", "--reauthenticate", " ", "'">>
        \o EscapeName(acc.name) \o <<"'">>

MsgExpiredHead ==
    "All accounts failed to proxy the request. OAuth tokens have expired for accounts: "

MsgExpiredMid == ".\n\nPlease re-authenticate:\n  "

NameSep == ", "

CommandSep == "\n  "

\* The message of line 267.
ReauthMessage(accs) ==
    <<MsgExpiredHead>>
        \o Join([k \in 1..Len(accs) |-> accs[k].name], <<NameSep>>)
        \o <<MsgExpiredMid>>
        \o Join([k \in 1..Len(accs) |-> reauthCommand(accs[k])], <<CommandSep>>)

Digit(d) == <<"0", "1", "2", "3", "4", "5", "6", "7", "8", "9">>[d + 1]

\* `${n}` for a length.
RECURSIVE LengthText(_)
LengthText(n) == IF n < 10 THEN <<Digit(n)>> ELSE LengthText(n \div 10) \o <<Digit(n % 10)>>

AttemptedCount_short(accs) == Len(accs) - 1

\* accounts.length in the message of line 273.
AttemptedCount(accs) == Len(accs)

\* The message of line 273.
GenericMessage(accs) ==
    <<"ERROR_MESSAGES.ALL_ACCOUNTS_FAILED", " (">> \o LengthText(AttemptedCount(accs))
        \o <<" attempted)">>

\* Step 10: the error thrown once every candidate returned null.
AllFailedError(accs, prov) ==
    IF Len(needsReauth(accs)) > 0
    THEN Value("ServiceUnavailableError", "handleProxy", 0,
               ReauthMessage(needsReauth(accs)), prov)
    ELSE Value("ServiceUnavailableError", "handleProxy", 0, GenericMessage(accs), prov)

(* ------------------------- handleProxy: steps -------------------------- *)

Providers == {"anthropic", "zai"}

Bodies == {NullBuf, Buf(<<1, 2>>)}

ModifiedBodies == {NullBuf, Buf(<<3>>)}

Agents == {NoAgent, "agent"}

PInit ==
    /\ pc = "start"
    /\ provider \in Providers
    /\ requestBodyBuffer = NullBuf
    /\ modifiedBody = NullBuf
    /\ agentUsed = NoAgent
    /\ finalBodyBuffer = NullBuf
    /\ requestMeta = [agentUsed |-> NoAgent]
    /\ accounts = <<>>
    /\ i = 0
    /\ streams = <<>>
    /\ calls = <<>>
    /\ outcome = [kind |-> "pending", value |-> NoValue]

\* No request is in progress: the state the other specifications keep.
PIdle ==
    /\ pc = "idle"
    /\ provider = "anthropic"
    /\ requestBodyBuffer = NullBuf
    /\ modifiedBody = NullBuf
    /\ agentUsed = NoAgent
    /\ finalBodyBuffer = NullBuf
    /\ requestMeta = [agentUsed |-> NoAgent]
    /\ accounts = <<>>
    /\ i = 0
    /\ streams = <<>>
    /\ calls = <<>>
    /\ outcome = [kind |-> "pending", value |-> NoValue]

Throw(v) == outcome' = [kind |-> "throw", value |-> v]

Propagated_asUnavailable(err) ==
    Value("ServiceUnavailableError", "handleProxy", 0, <<"ERROR_MESSAGES.ALL_ACCOUNTS_FAILED">>, "")

\* What handleProxy throws when a collaborator it awaits throws err: there is
\* no try/catch in the function, so the same error.
Propagated(err) == err

RequestMetaFor_noAgent(agent) == [agentUsed |-> NoAgent]

\* Lines 202-203: the metadata with the detected agent attached.
RequestMetaFor(agent) == [agentUsed |-> agent]

Return(v) == outcome' = [kind |-> "return", value |-> v]

\* Lines 176-179: trackClientVersion, then validateProviderPath, which passes.
ValidateOk ==
    /\ pc = "start"
    /\ calls' = calls \o <<PlainCall("trackClientVersion", "ok", NoValue),
                           PlainCall("validateProviderPath", "ok", NoValue)>>
    /\ pc' = "prepare"
    /\ UNCHANGED <<provider, requestBodyBuffer, modifiedBody, agentUsed, finalBodyBuffer,
                   requestMeta, accounts, i, streams, outcome>>
    /\ UNCHANGED <<wvars, mvars, svars>>

\* Lines 176-179 when validateProviderPath throws its ValidationError.
ValidateThrows ==
    /\ pc = "start"
    /\ LET err == Value("ValidationError", "validateProviderPath", 0, <<>>, "") IN
       /\ calls' = calls \o <<PlainCall("trackClientVersion", "ok", NoValue),
                              PlainCall("validateProviderPath", "throw", err)>>
       /\ Throw(Propagated(err))
    /\ pc' = "done"
    /\ UNCHANGED <<provider, requestBodyBuffer, modifiedBody, agentUsed, finalBodyBuffer,
                   requestMeta, accounts, i, streams>>
    /\ UNCHANGED <<wvars, mvars, svars>>

\* Line 182: await prepareRequestBody(req).
PrepareBody ==
    /\ pc = "prepare"
    /\ \E buf \in Bodies :
         /\ requestBodyBuffer' = buf
         /\ calls' = Append(calls, PlainCall("prepareRequestBody", "ok", NoValue))
    /\ pc' = "intercept"
    /\ UNCHANGED <<provider, modifiedBody, agentUsed, finalBodyBuffer, requestMeta,
                   accounts, i, streams, outcome>>
    /\ UNCHANGED <<wvars, mvars, svars>>

PrepareBodyThrows ==
    /\ pc = "prepare"
    /\ LET err == ErrorOf("prepareRequestBody", 0) IN
       /\ calls' = Append(calls, PlainCall("prepareRequestBody", "throw", err))
       /\ Throw(Propagated(err))
    /\ pc' = "done"
    /\ UNCHANGED <<provider, requestBodyBuffer, modifiedBody, agentUsed, finalBodyBuffer,
                   requestMeta, accounts, i, streams>>
    /\ UNCHANGED <<wvars, mvars, svars>>

\* Lines 185-199: await interceptAndModifyRequest, then the final buffer.
Intercept ==
    /\ pc = "intercept"
    /\ \E mod \in ModifiedBodies, agent \in Agents :
         /\ modifiedBody' = mod
         /\ agentUsed' = agent
         /\ finalBodyBuffer' = BodyOr(mod, requestBodyBuffer)
         /\ calls' = Append(calls,
                CallRec("interceptAndModifyRequest", NoAccount, -1, requestBodyBuffer,
                        NullBuf, NoAgent, "ok", NoValue))
    /\ pc' = "select"
    /\ UNCHANGED <<provider, requestBodyBuffer, requestMeta, accounts, i, streams, outcome>>
    /\ UNCHANGED <<wvars, mvars, svars>>

InterceptThrows ==
    /\ pc = "intercept"
    /\ LET err == ErrorOf("interceptAndModifyRequest", 0) IN
       /\ calls' = Append(calls,
              CallRec("interceptAndModifyRequest", NoAccount, -1, requestBodyBuffer,
                      NullBuf, NoAgent, "throw", err))
       /\ Throw(Propagated(err))
    /\ pc' = "done"
    /\ UNCHANGED <<provider, requestBodyBuffer, modifiedBody, agentUsed, finalBodyBuffer,
                   requestMeta, accounts, i, streams>>
    /\ UNCHANGED <<wvars, mvars, svars>>

\* Lines 202-218 and 233: the metadata, the selection, and where the call goes.
Select ==
    /\ pc = "select"
    /\ LET meta == RequestMetaFor(agentUsed) IN
       /\ requestMeta' = meta
       /\ \E accs \in AccountLists :
            /\ accounts' = accs
            /\ calls' = calls \o
                 <<PlainCall("createRequestMetadata", "ok", NoValue),
                   CallRec("selectAccountsForRequest", NoAccount, -1, NullBuf, NullBuf,
                           meta.agentUsed, "ok", NoValue)>>
            /\ IF IsEmpty(accs)
               THEN pc' = "unauthenticated" /\ UNCHANGED outcome
               ELSE IF 0 < Len(accs)
               THEN pc' = "loop" /\ UNCHANGED outcome
               ELSE pc' = "done" /\ Throw(AllFailedError(accs, provider))
    /\ i' = 0
    /\ UNCHANGED <<provider, requestBodyBuffer, modifiedBody, agentUsed, finalBodyBuffer,
                   streams>>
    /\ UNCHANGED <<wvars, mvars, svars>>

SelectThrows ==
    /\ pc = "select"
    /\ LET meta == RequestMetaFor(agentUsed)
           err == ErrorOf("selectAccountsForRequest", 0) IN
       /\ requestMeta' = meta
       /\ calls' = calls \o
            <<PlainCall("createRequestMetadata", "ok", NoValue),
              CallRec("selectAccountsForRequest", NoAccount, -1, NullBuf, NullBuf,
                      meta.agentUsed, "throw", err)>>
       /\ Throw(Propagated(err))
    /\ pc' = "done"
    /\ UNCHANGED <<provider, requestBodyBuffer, modifiedBody, agentUsed, finalBodyBuffer,
                   accounts, i, streams>>
    /\ UNCHANGED <<wvars, mvars, svars>>

\* The number of earlier calls of collaborator fn.
Ordinal(fn) == Len(SelectSeq(calls, LAMBDA c : c.fn = fn))

\* Lines 210-217: return proxyUnauthenticated(...).  The callee takes a stream
\* from the factory and reads n bytes of it; the call's outcome is the request's.
Unauthenticated ==
    /\ pc = "unauthenticated"
    /\ \E res \in {"response", "throw"}, n \in 0..Len(finalBodyBuffer.bytes) :
         LET f == finalCreateBodyStream(streams, finalBodyBuffer)
             k == Ordinal("proxyUnauthenticated")
             v == IF res = "response" THEN ResponseOf("proxyUnauthenticated", k)
                  ELSE Value("ProviderError", "proxyUnauthenticated", k, <<>>, "")
         IN /\ streams' = Consume(f.streams, f.id, n)
            /\ calls' = Append(calls,
                   CallRec("proxyUnauthenticated", NoAccount, -1, finalBodyBuffer,
                           Remaining(f.streams, f.id), requestMeta.agentUsed, res, v))
            /\ IF res = "response" THEN Return(v) ELSE Throw(Propagated(v))
    /\ pc' = "done"
    /\ UNCHANGED <<provider, requestBodyBuffer, modifiedBody, agentUsed, finalBodyBuffer,
                   requestMeta, accounts, i>>
    /\ UNCHANGED <<wvars, mvars, svars>>

\* Lines 233-275: one pass of the loop, await proxyWithAccount(..., i, ctx), and
\* what follows without another await: the return, the next pass, or step 10.
Attempt ==
    /\ pc = "loop"
    /\ i < Len(accounts)
    /\ \E res \in {"null", "response", "throw"}, n \in 0..Len(finalBodyBuffer.bytes) :
         LET f == finalCreateBodyStream(streams, finalBodyBuffer)
             k == Ordinal("proxyWithAccount")
             v == IF res = "response" THEN ResponseOf("proxyWithAccount", k)
                  ELSE IF res = "throw" THEN ErrorOf("proxyWithAccount", k)
                  ELSE NoValue
         IN /\ streams' = Consume(f.streams, f.id, n)
            /\ calls' = Append(calls,
                   CallRec("proxyWithAccount", CandidateAt(accounts, i), i, finalBodyBuffer,
                           Remaining(f.streams, f.id), requestMeta.agentUsed, res, v))
            /\ IF res = "response" THEN /\ Return(v)
                                        /\ pc' = "done"
                                        /\ i' = i
               ELSE IF res = "throw" THEN /\ Throw(Propagated(v))
                                          /\ pc' = "done"
                                          /\ i' = i
               ELSE IF i + 1 < Len(accounts) THEN /\ UNCHANGED outcome
                                                  /\ pc' = "loop"
                                                  /\ i' = i + 1
               ELSE /\ Throw(AllFailedError(accounts, provider))
                    /\ pc' = "done"
                    /\ i' = i + 1
    /\ UNCHANGED <<provider, requestBodyBuffer, modifiedBody, agentUsed, finalBodyBuffer,
                   requestMeta, accounts>>
    /\ UNCHANGED <<wvars, mvars, svars>>

(* ------------- the remediation command, read by a shell ---------------- *)

\* Characters account names are drawn from in the quoting check.
ShAlphabet == {"a", "'", " ", "\\", "$"}

ShNames == SeqsUpTo(ShAlphabet, MaxNameLen)

SIdle ==
    /\ shPc = "idle"
    /\ shName = <<>>
    /\ shCommand = <<>>
    /\ shWords = <<>>

SInit ==
    /\ shPc = "name"
    /\ shName \in ShNames
    /\ shCommand = <<>>
    /\ shWords = <<>>

\* POSIX word splitting of a command line: outside quotes a blank ends a word,
\* a backslash makes the next character literal, ' opens a quotation and $
\* starts an expansion; inside '...' every character up to the next ' is literal.
RECURSIVE ShSplit(_, _, _, _, _, _)
ShSplit(s, k, quoted, inWord, cur, words) ==
    IF k > Len(s)
    THEN IF quoted THEN <<"<unterminated quote>">>
         ELSE IF inWord THEN Append(words, cur) ELSE words
    ELSE IF quoted
    THEN IF s[k] = "'" THEN ShSplit(s, k + 1, FALSE, TRUE, cur, words)
         ELSE ShSplit(s, k + 1, TRUE, TRUE, Append(cur, s[k]), words)
    ELSE IF s[k] = "'" THEN ShSplit(s, k + 1, TRUE, TRUE, cur, words)
    ELSE IF s[k] = "\\"
    THEN IF k + 1 > Len(s) THEN <<"<continuation>">>
         ELSE ShSplit(s, k + 2, FALSE, TRUE, Append(cur, s[k + 1]), words)
    ELSE IF s[k] = "$" THEN <<"<expansion>">>
    ELSE IF s[k] = " "
    THEN IF inWord THEN ShSplit(s, k + 1, FALSE, FALSE, <<>>, Append(words, cur))
         ELSE ShSplit(s, k + 1, FALSE, FALSE, <<>>, words)
    ELSE ShSplit(s, k + 1, FALSE, TRUE, Append(cur, s[k]), words)

ShTokenize(s) == ShSplit(s, 1, FALSE, FALSE, <<>>, <<>>)

\* Lines 260-264 for one account of that name.
ShBuildCommand ==
    /\ shPc = "name"
    /\ shCommand' = reauthCommand(Account(shName, "rt", TRUE))
    /\ shPc' = "command"
    /\ UNCHANGED <<shName, shWords>>
    /\ UNCHANGED <<wvars, mvars, pvars>>

\* The operator pastes the command into a shell.
ShRun ==
    /\ shPc = "command"
    /\ shWords' = ShTokenize(shCommand)
    /\ shPc' = "run"
    /\ UNCHANGED <<shName, shCommand>>
    /\ UNCHANGED <<wvars, mvars, pvars>>

(* --------------------------- specifications ---------------------------- *)

PNext ==
    \/ ValidateOk
    \/ ValidateThrows
    \/ PrepareBody
    \/ PrepareBodyThrows
    \/ Intercept
    \/ InterceptThrows
    \/ Select
    \/ SelectThrows
    \/ Unauthenticated
    \/ Attempt

\* One handleProxy call, from its entry to its return or throw.
Init == PInit /\ WInit /\ SIdle

Spec == Init /\ [][PNext]_vars

SNext == ShBuildCommand \/ ShRun

ShellInit == SInit /\ WInit /\ PIdle

ShellSpec == ShellInit /\ [][SNext]_vars

WNext ==
    \/ GetUsageWorker
    \/ GetUsageWorkerFails
    \/ TerminateUsageWorker
    \/ \E w \in WorkerIds : WorkerError(w)
    \/ \E w \in WorkerIds : WorkerExit(w)
    \/ \E t \in 1..MaxTimers : TimerFires(t)

WorkerInit == WInit /\ PIdle /\ SIdle

WorkerSpec == WorkerInit /\ [][WNext]_vars

\* Timers are run by the event loop: a pending timer is not postponed for ever.
WorkerLiveSpec == WorkerSpec /\ WF_vars(\E t \in 1..MaxTimers : TimerFires(t))

\* The worker with the messages its instances send.
RNext ==
    \/ WNext
    \/ \E w \in WorkerIds, data \in Messages : WorkerMessage(w, data)

RelaySpec == WorkerInit /\ [][RNext]_vars

(* ------------------- what the claims below speak of -------------------- *)

\* The proxyWithAccount calls made so far, in order.
Attempts == SelectSeq(calls, LAMBDA c : c.fn = "proxyWithAccount")

\* The proxyUnauthenticated calls made so far.
UnauthCalls == SelectSeq(calls, LAMBDA c : c.fn = "proxyUnauthenticated")

\* The call is over, had candidates, and every attempt it made returned null.
AllReturnedNull ==
    /\ pc = "done"
    /\ accounts # <<>>
    /\ Attempts # <<>>
    /\ \A j \in 1..Len(Attempts) : Attempts[j].result = "null"

\* The candidates that carry a refresh token and are judged expired, in list order.
ExpiredOauth ==
    SelectSeq(accounts,
              LAMBDA a : a.refresh_token # NoToken /\ a.refresh_token # "" /\ a.expired)

\* The place of the first tok in text s, Len(s) + 1 when there is none.
IndexOf(s, tok) ==
    CHOOSE k \in 1..(Len(s) + 1) :
        /\ k = Len(s) + 1 \/ s[k] = tok
        /\ \A j \in 1..(k - 1) : s[j] # tok

RECURSIVE SplitOn(_, _)
SplitOn(s, sep) ==
    LET k == IndexOf(s, sep) IN
    IF k > Len(s) THEN <<s>>
    ELSE <<SubSeq(s, 1, k - 1)>> \o SplitOn(SubSeq(s, k + 1, Len(s)), sep)

\* The account names a credential-expiry message lists.
MessageNames(m) == SplitOn(SubSeq(m, 2, IndexOf(m, MsgExpiredMid) - 1), NameSep)

\* The command lines a credential-expiry message lists.
MessageCommands(m) == SplitOn(SubSeq(m, IndexOf(m, MsgExpiredMid) + 1, Len(m)), CommandSep)

\* The words a shell makes of the remediation command for `name`.
CommandWords(name) == <<<<"bun">>, <<"run">>, <<"cli">>, <<"--reauthenticate">>, name>>

DigitValue(c) ==
    CASE c = "0" -> 0 [] c = "1" -> 1 [] c = "2" -> 2 [] c = "3" -> 3 [] c = "4" -> 4
      [] c = "5" -> 5 [] c = "6" -> 6 [] c = "7" -> 7 [] c = "8" -> 8 [] c = "9" -> 9
      [] OTHER -> -1000

RECURSIVE ParseDecimal(_)
ParseDecimal(ds) ==
    IF ds = <<>> THEN -1000
    ELSE IF Len(ds) = 1 THEN DigitValue(ds[1])
    ELSE 10 * ParseDecimal(SubSeq(ds, 1, Len(ds) - 1)) + DigitValue(ds[Len(ds)])

(* ------------------------------ C1 ------------------------------------- *)

\* C1: the j-th proxyWithAccount call gets accounts[j-1] and index j-1, every
\* call but the last returned null, and once a call returns a response that
\* response is what handleProxy returns and no further call is made.
C1_FirstResponseReturned ==
    /\ Len(Attempts) <= Len(accounts)
    /\ \A j \in 1..Len(Attempts) :
         /\ Attempts[j].account = accounts[j]
         /\ Attempts[j].index = j - 1
         /\ j < Len(Attempts) => Attempts[j].result = "null"
    /\ \A k \in 1..Len(Attempts) :
         Attempts[k].result = "response"
           => /\ Len(Attempts) = k
              /\ pc = "done"
              /\ outcome = [kind |-> "return", value |-> Attempts[k].value]
              /\ outcome.value = ResponseOf("proxyWithAccount", k - 1)

\* The second of three candidates answered: two calls, the third never tried.
C1_Witness ==
    /\ pc = "done"
    /\ Len(accounts) = 3
    /\ accounts[1] # accounts[2] /\ accounts[2] # accounts[3]
    /\ Len(Attempts) = 2
    /\ Attempts[1].result = "null"
    /\ Attempts[2].result = "response"
    /\ outcome.kind = "return"

(* ------------------------------ C2 ------------------------------------- *)

\* C2: for a request with a body, every proxyWithAccount call and the
\* proxyUnauthenticated call get the same buffer, the modified body when
\* interception gave one and the buffered body otherwise, and the stream the
\* factory gives each of them reads as that whole buffer, whatever earlier
\* callees read of their streams.
C2_SameBodyEveryAttempt ==
    ~requestBodyBuffer.isNull
      => LET expected == IF modifiedBody.isNull THEN requestBodyBuffer ELSE modifiedBody IN
         \A k \in 1..Len(calls) :
            calls[k].fn \in {"proxyWithAccount", "proxyUnauthenticated"}
              => /\ calls[k].body = expected
                 /\ calls[k].delivered = expected

\* The first attempt read one of the two bytes of its stream, the second
\* attempt read all of its own, and a third attempt followed.
C2_Witness ==
    /\ requestBodyBuffer = Buf(<<1, 2>>)
    /\ modifiedBody.isNull
    /\ Len(Attempts) = 3
    /\ Len(streams) = 3
    /\ streams[1].pos = 1
    /\ streams[2].pos = 2
    /\ Attempts[3].delivered = Buf(<<1, 2>>)

(* ------------------------------ C3 ------------------------------------- *)

\* C3: when every candidate returned null and some candidate carries a refresh
\* token and is judged expired, handleProxy throws a ServiceUnavailableError
\* whose message lists the names of exactly those candidates, in list order,
\* and one command line for each, in the same order, which a shell reads as
\* the reauthenticate command for that name.
C3_ExpiredAccountsNamed ==
    (AllReturnedNull /\ ExpiredOauth # <<>>)
      => /\ outcome.kind = "throw"
         /\ outcome.value.type = "ServiceUnavailableError"
         /\ LET m == outcome.value.message IN
            /\ m[1] = MsgExpiredHead
            /\ IndexOf(m, MsgExpiredMid) <= Len(m)
            /\ MessageNames(m) = [k \in 1..Len(ExpiredOauth) |-> ExpiredOauth[k].name]
            /\ Len(MessageCommands(m)) = Len(ExpiredOauth)
            /\ \A k \in 1..Len(ExpiredOauth) :
                 ShTokenize(MessageCommands(m)[k]) = CommandWords(ExpiredOauth[k].name)

\* Three candidates failed; two of them hold refresh tokens judged expired, the
\* third holds one that is not.
C3_Witness ==
    /\ AllReturnedNull
    /\ Len(accounts) = 3
    /\ Len(ExpiredOauth) = 2
    /\ ExpiredOauth[1] # ExpiredOauth[2]
    /\ \E k \in 1..3 : Truthy(accounts[k].refresh_token) /\ ~accounts[k].expired
    /\ outcome.kind = "throw"
    /\ Len(MessageCommands(outcome.value.message)) = 2

(* ------------------------------ C4 ------------------------------------- *)

\* C4: for a name with a single quote in it, a shell reads the remediation
\* command as bun, run, cli, --reauthenticate and one more word, the name.
C4_QuotedNameRoundTrip ==
    (shPc = "run" /\ \E k \in 1..Len(shName) : shName[k] = "'")
      => shWords = CommandWords(shName)

\* A name of a quote, a dollar sign and a blank came back as one word.
C4_Witness ==
    /\ shPc = "run"
    /\ shName = <<"'", "$", " ">>
    /\ Len(shWords) = 5
    /\ shWords[5] = <<"'", "$", " ">>

(* ------------------------------ C5 ------------------------------------- *)

\* C5: when every candidate returned null and none carries a refresh token
\* judged expired, each of the N candidates was tried once, in order, and
\* handleProxy throws a ServiceUnavailableError with the provider's name whose
\* message is the all-accounts-failed text, " (", N in decimal, " attempted)",
\* with no command in it.
C5_GenericFailureCountsAttempts ==
    (AllReturnedNull /\ ExpiredOauth = <<>>)
      => /\ Len(Attempts) = Len(accounts)
         /\ \A j \in 1..Len(Attempts) : Attempts[j].account = accounts[j]
         /\ outcome.kind = "throw"
         /\ outcome.value.type = "ServiceUnavailableError"
         /\ outcome.value.provider = provider
         /\ LET m == outcome.value.message IN
            /\ Len(m) >= 4
            /\ m[1] = "ERROR_MESSAGES.ALL_ACCOUNTS_FAILED"
            /\ m[2] = " ("
            /\ m[Len(m)] = " attempted)"
            /\ ParseDecimal(SubSeq(m, 3, Len(m) - 1)) = Len(accounts)
            /\ \A k \in 1..Len(m) : m[k] # "--reauthenticate"

\* Three candidates, one without a token, one with an empty one and one whose
\* token is not judged expired, all failed.
C5_Witness ==
    /\ AllReturnedNull
    /\ Len(accounts) = 3
    /\ ExpiredOauth = <<>>
    /\ \E k \in 1..3 : Truthy(accounts[k].refresh_token)
    /\ \E k \in 1..3 : accounts[k].refresh_token = NoToken
    /\ outcome.value.message[3] = "3"

(* ------------------------------ C6 ------------------------------------- *)

\* C6: after a selection that gave no account, proxyWithAccount is never
\* called, proxyUnauthenticated is called once, and the call ends as that call
\* ended, with its response or its error and no ServiceUnavailableError; after
\* a selection that gave accounts, proxyUnauthenticated is never called.
C6_EmptySelectionGoesUnauthenticated ==
    /\ (pc \in {"unauthenticated", "loop", "done"} /\ accounts = <<>>
        /\ \E k \in 1..Len(calls) :
              calls[k].fn = "selectAccountsForRequest" /\ calls[k].result = "ok")
         => /\ Attempts = <<>>
            /\ Len(UnauthCalls) <= 1
            /\ pc # "loop"
            /\ pc = "done"
                 => /\ Len(UnauthCalls) = 1
                    /\ outcome.value = UnauthCalls[1].value
                    /\ outcome.kind =
                         (IF UnauthCalls[1].result = "response" THEN "return" ELSE "throw")
                    /\ outcome.value.type # "ServiceUnavailableError"
    /\ accounts # <<>> => UnauthCalls = <<>>

\* The selection was empty and the unauthenticated call's response was returned.
C6_Witness ==
    /\ pc = "done"
    /\ accounts = <<>>
    /\ Len(UnauthCalls) = 1
    /\ Attempts = <<>>
    /\ outcome = [kind |-> "return", value |-> ResponseOf("proxyUnauthenticated", 0)]

(* ------------------------------ C11 ------------------------------------ *)

\* C11: a collaborator call that threw is the last call handleProxy made, and
\* handleProxy threw that same error: no later candidate is tried and no other
\* error takes its place.
C11_CollaboratorErrorsPropagate ==
    \A k \in 1..Len(calls) :
       calls[k].result = "throw"
         => /\ k = Len(calls)
            /\ pc = "done"
            /\ outcome = [kind |-> "throw", value |-> calls[k].value]
            /\ calls[k].value.from = calls[k].fn

\* The second of three candidates threw: its error came out, the third was
\* never tried.
C11_Witness ==
    /\ pc = "done"
    /\ Len(accounts) = 3
    /\ Len(Attempts) = 2
    /\ Attempts[1].result = "null"
    /\ Attempts[2].result = "throw"
    /\ outcome = [kind |-> "throw", value |-> ErrorOf("proxyWithAccount", 1)]

(* ------------------------------ C12 ------------------------------------ *)

\* The collaborators of the fixed part of the sequence, in the order of the code.
FixedOrder ==
    <<"trackClientVersion", "validateProviderPath", "prepareRequestBody",
      "interceptAndModifyRequest", "createRequestMetadata", "selectAccountsForRequest">>

C7_CrashRecovery ==
    [][ /\ (last'.op = "error" /\ last'.w = usageWorkerInstance)
            => usageWorkerInstance' = 0
        /\ (last'.op = "get" /\ ~last'.raised)
            => /\ last'.ret # 0
               /\ last'.ret = usageWorkerInstance'
               /\ last'.ret \notin faulted'
               /\ usageWorkerInstance = 0
                    => /\ workers[last'.ret] = "none"
                       /\ workers'[last'.ret] = "running" ]_vars

\* A getUsageWorker() right after the held instance faulted, with the timer of
\* an earlier terminateUsageWorker() still pending, returned a new instance.
C7_Witness ==
    /\ last.op = "get" /\ last.prev = "error" /\ ~last.raised
    /\ faulted = {1} /\ last.ret = 2 /\ usageWorkerInstance = 2
    /\ 1 \in posted /\ timers # {}

(* ------------------------------ C8 ------------------------------------- *)

\* C8: a terminateUsageWorker() that directly follows another one leaves the
\* singleton as it was, leaves as many timers pending (at most one, the one
\* shutdownTimerId names), stops nothing and raises nothing; and no instance is
\* ever forcibly stopped twice.
C8_TerminateIdempotent ==
    [][ /\ (last.op = "terminate" /\ last'.op = "terminate" /\ last'.prev = "terminate")
            => /\ usageWorkerInstance' = usageWorkerInstance
               /\ Cardinality(timers') = Cardinality(timers)
               /\ Cardinality(timers') <= 1
               /\ (shutdownTimerId' = 0) = (shutdownTimerId = 0)
               /\ shutdownTimerId' # 0 => timers' = {shutdownTimerId'}
               /\ stops' = stops
               /\ workers' = workers
               /\ ~last'.raised
        /\ \A w \in WorkerIds : stops'[w] <= 1 ]_vars

\* Two calls in a row on a running instance: the second replaced the timer.
C8_Witness ==
    /\ last.op = "terminate" /\ last.prev = "terminate"
    /\ usageWorkerInstance # 0
    /\ usageWorkerInstance \in posted
    /\ timersCreated >= 2
    /\ Cardinality(timers) = 1

(* ------------------------------ C9 ------------------------------------- *)

\* C9: an instance that was sent the shutdown message does not stay in the
\* singleton for ever; a timer that fires stops the instance the singleton
\* holds, clears the singleton and the timer id; and a getUsageWorker() that
\* follows a timer either fails to create or returns an instance that did not
\* exist before.
C9_BoundedShutdown ==
    /\ \A w \in WorkerIds :
          (usageWorkerInstance = w /\ w \in posted) ~> (usageWorkerInstance # w)
    /\ [][ /\ last'.op = "timer"
               => /\ usageWorkerInstance' = 0
                  /\ shutdownTimerId' = 0
                  /\ usageWorkerInstance # 0
                       => /\ workers'[usageWorkerInstance] = "terminated"
                          /\ stops'[usageWorkerInstance] = stops[usageWorkerInstance] + 1
           /\ (last'.op = "get" /\ last'.prev = "timer" /\ ~last'.raised)
               => /\ workers[last'.ret] = "none"
                  /\ workers'[last'.ret] = "running"
                  /\ usageWorkerInstance' = last'.ret ]_vars

\* The timer fired on an instance that had been sent the shutdown message and
\* was still running, and the next getUsageWorker() made a new one.
C9_Witness ==
    /\ last.op = "get" /\ last.prev = "timer" /\ ~last.raised
    /\ \E w \in WorkerIds : workers[w] = "terminated" /\ w \in posted /\ w \notin faulted
    /\ usageWorkerInstance = last.ret

(* ------------------------------ C10 ------------------------------------ *)

\* C10: at most one instance that was created has neither exited nor been
\* forcibly stopped.
C10_AtMostOneLive == Cardinality(Live) <= 1


(* ------------------------------ C13 ------------------------------------ *)

\* C13: a terminateUsageWorker() whose postMessage fails (the instance held is
\* no longer running) nulls the singleton, raises nothing, schedules no timer
\* and leaves no timer pending; the getUsageWorker() after it makes a new
\* instance unless creation fails.
C13_FailedPostClearsSingleton ==
    [][ /\ (last'.op = "terminate" /\ usageWorkerInstance # 0
            /\ workers[usageWorkerInstance] # "running")
            => /\ usageWorkerInstance' = 0
               /\ ~last'.raised
               /\ timersCreated' = timersCreated
               /\ timers' = {}
               /\ shutdownTimerId' = 0
               /\ workers' = workers /\ stops' = stops
        /\ (last.op = "terminate" /\ last.w # 0 /\ workers[last.w] # "running"
            /\ last'.op = "get" /\ last'.prev = "terminate" /\ ~last'.raised)
            => /\ workers[last'.ret] = "none"
               /\ workers'[last'.ret] = "running"
               /\ usageWorkerInstance' = last'.ret ]_vars

\* The instance had been sent shutdown and then ended; the next terminate
\* call failed to post, cancelled the pending timer and nulled the singleton.
C13_Witness ==
    /\ last.op = "terminate" /\ last.w # 0
    /\ last.w \in posted
    /\ workers[last.w] = "exited"
    /\ usageWorkerInstance = 0
    /\ timersCreated = 1 /\ timers = {} /\ shutdownTimerId = 0

(* ------------------------------ C14 ------------------------------------ *)

\* C14: a getUsageWorker() whose creation fails raises to its caller and
\* leaves the singleton null and no instance made; the getUsageWorker() after
\* it creates again, and when that succeeds returns an instance that did not
\* exist before.
C14_FailedCreationSurfaces ==
    [][ /\ (last'.op = "get" /\ last'.raised)
            => /\ usageWorkerInstance = 0
               /\ usageWorkerInstance' = 0
               /\ workers' = workers
        /\ (last'.op = "get" /\ ~last'.raised)
            => /\ last'.ret # 0
               /\ last'.ret = usageWorkerInstance'
        /\ (last'.op = "get" /\ last'.prev = "get-raised" /\ ~last'.raised)
            => /\ workers[last'.ret] = "none"
               /\ workers'[last'.ret] = "running" ]_vars

\* Creation failed, and the call after it made the first instance.
C14_Witness ==
    /\ last.op = "get" /\ last.prev = "get-raised" /\ ~last.raised
    /\ usageWorkerInstance = last.ret
    /\ workers[last.ret] = "running"

(* ------------------------------ C15 ------------------------------------ *)

\* C15: a step that receives a message of type "summary" (resp. "payload")
\* appends exactly one event to those emitted, with that type and with the
\* message's summary (resp. payload) field as payload; a message of any other
\* type appends none; either way nothing is raised and the singleton, the
\* timer id, the pending timers and the instances stay as they were; no other
\* step emits an event.
C15_TransparentRelay ==
    [][ /\ (Len(received') = Len(received) + 1)
            => LET data == received'[Len(received')] IN
               /\ SubSeq(received', 1, Len(received)) = received
               /\ data.type = "summary"
                    => events' = Append(events, [type |-> "summary", payload |-> data.summary])
               /\ data.type = "payload"
                    => events' = Append(events, [type |-> "payload", payload |-> data.payload])
               /\ data.type \notin {"summary", "payload"} => events' = events
               /\ ~last'.raised
               /\ usageWorkerInstance' = usageWorkerInstance
               /\ shutdownTimerId' = shutdownTimerId
               /\ timers' = timers
               /\ workers' = workers
        /\ (received' = received) => events' = events ]_vars

\* An instance that had been replaced sent a message of an unknown type and
\* then a payload message that also carries a summary field: one event.
C15_Witness ==
    /\ last.op = "message"
    /\ last.w # usageWorkerInstance
    /\ Len(received) = 2
    /\ received[1].type = "ping"
    /\ received[2] = [type |-> "payload", summary |-> "s1", payload |-> "p2"]
    /\ events = <<[type |-> "payload", payload |-> "p2"]>>

(* ------------------------------ C16 ------------------------------------ *)

\* C16: at most one timer is pending, and shutdownTimerId is non-null exactly
\* when one is, naming it.
C16_OneTimerPending ==
    /\ Cardinality(timers) <= 1
    /\ (shutdownTimerId # 0) = (timers # {})
    /\ timers \subseteq {shutdownTimerId}

\* A second timer replaced the first after an instance faulted and a new one
\* was made between the two terminate calls.
C16_Witness ==
    /\ timersCreated = 2
    /\ timers = {2}
    /\ shutdownTimerId = 2
    /\ faulted # {}
    /\ usageWorkerInstance = 2

(* ------------------------------ C17 ------------------------------------ *)

\* C17: terminateUsageWorker() with the singleton null changes nothing: the
\* singleton, the timer id, the pending timers, the instances and the messages
\* posted stay as they were, and nothing is raised.
C17_TerminateAbsentIsNoOp ==
    [][ (last'.op = "terminate" /\ usageWorkerInstance = 0)
          => /\ usageWorkerInstance' = 0
             /\ shutdownTimerId' = shutdownTimerId
             /\ timers' = timers
             /\ timersCreated' = timersCreated
             /\ posted' = posted
             /\ workers' = workers
             /\ stops' = stops
             /\ ~last'.raised ]_vars

\* The call came with the singleton null and an earlier call's timer pending.
C17_Witness ==
    /\ last.op = "terminate" /\ last.w = 0
    /\ usageWorkerInstance = 0
    /\ timers # {} /\ shutdownTimerId # 0

(* ------------------------------ C18 ------------------------------------ *)

\* C18: a timer that fires stops only an instance that was sent the shutdown
\* message.
C18_TimerStopsOnlyItsInstance ==
    [][ (last'.op = "timer" /\ usageWorkerInstance # 0)
          => usageWorkerInstance \in posted ]_vars

(* ------------------------------ C19 ------------------------------------ *)

\* C19: an error reported by an instance other than the one the singleton
\* holds leaves the singleton as it is.
C19_StaleErrorKeepsSingleton ==
    [][ (last'.op = "error" /\ last'.w # usageWorkerInstance)
          => usageWorkerInstance' = usageWorkerInstance ]_vars

(* ------------------------------ C20 ------------------------------------ *)

\* C20 as claimed: getUsageWorker() never returns an instance that was sent
\* the shutdown message.
C20_NeverReturnedAfterShutdown ==
    [][ (last'.op = "get" /\ ~last'.raised) => last'.ret \notin posted ]_vars

\* C20 as amended: while the singleton holds an instance that was sent the
\* shutdown message getUsageWorker() returns that instance and makes no other;
\* once the singleton has let go of such an instance it never holds it again,
\* and getUsageWorker() never returns it again.
C20_ShutdownHandleNotRevived ==
    [][ /\ (last'.op = "get" /\ ~last'.raised /\ usageWorkerInstance \in posted)
            => /\ last'.ret = usageWorkerInstance
               /\ usageWorkerInstance' = usageWorkerInstance
               /\ workers' = workers
        /\ \A w \in posted :
              usageWorkerInstance # w
                => /\ usageWorkerInstance' # w
                   /\ (last'.op = "get" => last'.ret # w) ]_vars

\* A getUsageWorker() in the grace window returned the instance that had been
\* sent the shutdown message.
C20_Witness ==
    /\ last.op = "get" /\ last.prev = "terminate" /\ ~last.raised
    /\ last.ret \in posted
    /\ usageWorkerInstance = last.ret
    /\ timers # {}

=============================================================================
